---------------------------- MODULE Spec2Model ----------------------------
(***************************************************************************)
(* Indexed, block-structured zstd compression of a line-delimited table    *)
(* (compression.rs) and its indexed parallel readers (decompression.rs).   *)
(* Bytes are integers 0..255.  A zstd frame is modelled by its interface:  *)
(* a magic byte, the content length, the content and a one-byte checksum;  *)
(* decoding verifies all three.                                            *)
(***************************************************************************)
EXTENDS Integers, Sequences, FiniteSets, TLC

\* ---------------------------------------------------------------- bounds
MaxPieces == 2
MaxBlock == 5
MaxWorkers == 2

\* ------------------------------------------------------- byte constants
NL == 10
TAB == 9
ZstdMagic == 40

\* The pieces an input file is assembled from: the records "a\t1\n" and
\* "b\t22\n" (one byte longer), a record "a\tx\n" that repeats a key with
\* a non-numeric value, a line "\xFF\t1\n" whose key is the byte 0xFF (never
\* valid UTF-8), and a fragment "c" with neither separator nor newline (a
\* line without separator, or an unterminated last line).
Pieces ==
    { <<97, TAB, 49, NL>>, <<98, TAB, 50, 50, NL>>, <<97, TAB, 120, NL>>,
      <<255, TAB, 49, NL>>, <<99>> }

RECURSIVE InputsOfLen(_)
InputsOfLen(n) ==
    IF n = 0 THEN { <<>> }
    ELSE { p \o s : p \in Pieces, s \in InputsOfLen(n - 1) }

Inputs == UNION { InputsOfLen(n) : n \in 0..MaxPieces }

BlockSizes == 1..MaxBlock

\* ------------------------------------------------------ sequence helpers
Drop(s, n) == SubSeq(s, n + 1, Len(s))

Take(s, n) == SubSeq(s, 1, n)

RECURSIVE Flatten(_)
Flatten(ss) == IF ss = <<>> THEN <<>> ELSE Head(ss) \o Flatten(Tail(ss))

\* Index of the first element of s equal to b, 0 when there is none.
RECURSIVE PositionOf(_, _)
PositionOf(s, b) ==
    IF s = <<>> THEN 0
    ELSE IF Head(s) = b THEN 1
    ELSE LET r == PositionOf(Tail(s), b) IN IF r = 0 THEN 0 ELSE r + 1

\* str::from_utf8 succeeds: the alphabet holds ASCII bytes and 0xFF only, and
\* a byte >= 0x80 standing alone is never valid UTF-8.
IsValidUtf8(s) == \A i \in 1..Len(s) : s[i] < 128

\* Decoded buffers for parse_lines_to_map on its own: up to MaxLines lines,
\* each a key, a tab and a value field, or a line without a tab ("c" or the
\* empty line); the last line with or without its newline.
MaxLines == 2

NegativeField == <<45, 49>>

\* 18446744073709551616, u64::MAX + 1.
OutOfRangeField ==
    <<49, 56, 52, 52, 54, 55, 52, 52, 48, 55, 51, 55, 48, 57, 53, 53, 49, 54, 49, 54>>

InvalidEncodingField == <<255>>

NonNumericField == <<120>>

\* "1\t2": the value field holds a second separator.
SecondSeparatorField == <<49, TAB, 50>>

MalformedFields ==
    {NegativeField, OutOfRangeField, InvalidEncodingField, NonNumericField, << >>,
     <<49, 32, 50>>, SecondSeparatorField}

NumericFields == {<<49>>, <<32, 55, 32>>, <<43, 50>>, <<48, 48, 51>>}

ParseLineSet ==
    { <<k, TAB>> \o f : k \in {97, 255}, f \in MalformedFields \cup NumericFields }
        \cup {<<99>>, << >>}

ParseBufsOfLen(n) ==
    IF n = 0 THEN {<< >>}
    ELSE { Flatten([i \in 1..n |-> IF i < n THEN l[i] \o <<NL>> ELSE l[i] \o e]) :
             l \in [1..n -> ParseLineSet], e \in {<< >>, <<NL>>} }

ParseBufs == UNION { ParseBufsOfLen(n) : n \in 0..MaxLines }

\* --------------------------------------------------------- compression.rs
\* BufRead::read_line on the bytes of inp after pos: consumes up to and
\* including the next newline (or to the end of the input); appends them to
\* the buffer unless they are not valid UTF-8, which is an error that leaves
\* the buffer as it was and the bytes consumed.
read_line(inp, pos, buf) ==
    LET rest == Drop(inp, pos)
        k == PositionOf(rest, NL)
        n == IF k = 0 THEN Len(rest) ELSE k
        line == Take(rest, n)
    IN IF IsValidUtf8(line)
       THEN [err |-> FALSE, n |-> n, pos |-> pos + n, buf |-> buf \o line]
       ELSE [err |-> TRUE, n |-> 0, pos |-> pos + n, buf |-> buf]

\* The loop of read_chunk going on until the block size is exceeded.
RECURSIVE read_chunk_loop_strict(_, _, _, _, _)
read_chunk_loop_strict(inp, pos, buf, total_bytes_read, block_size) ==
    LET r == read_line(inp, pos, buf) IN
    IF r.err
    THEN [tag |-> "Err", total |-> total_bytes_read, pos |-> r.pos, buf |-> r.buf]
    ELSE IF r.n = 0
    THEN [tag |-> IF total_bytes_read = 0 THEN "None" ELSE "Some",
          total |-> total_bytes_read, pos |-> r.pos, buf |-> r.buf]
    ELSE IF total_bytes_read + r.n > block_size
    THEN [tag |-> "Some", total |-> total_bytes_read + r.n,
          pos |-> r.pos, buf |-> r.buf]
    ELSE read_chunk_loop_strict(inp, r.pos, r.buf, total_bytes_read + r.n, block_size)

\* The loop of read_chunk: lines are read until the end of the input or
\* until the bytes read reach block_size.
RECURSIVE read_chunk_loop(_, _, _, _, _)
read_chunk_loop(inp, pos, buf, total_bytes_read, block_size) ==
    LET r == read_line(inp, pos, buf) IN
    IF r.err
    THEN [tag |-> "Err", total |-> total_bytes_read, pos |-> r.pos, buf |-> r.buf]
    ELSE IF r.n = 0
    THEN [tag |-> IF total_bytes_read = 0 THEN "None" ELSE "Some",
          total |-> total_bytes_read, pos |-> r.pos, buf |-> r.buf]
    ELSE IF total_bytes_read + r.n >= block_size
    THEN [tag |-> "Some", total |-> total_bytes_read + r.n,
          pos |-> r.pos, buf |-> r.buf]
    ELSE read_chunk_loop(inp, r.pos, r.buf, total_bytes_read + r.n, block_size)

\* read_chunk cutting the chunk at block_size bytes.
read_chunk_truncating(inp, pos, read_buffer, block_size) ==
    LET r == read_chunk_loop(inp, pos, read_buffer, 0, block_size) IN
    IF r.tag = "Some" /\ r.total > block_size
    THEN [tag |-> "Some", total |-> block_size,
          pos |-> pos + block_size, buf |-> Take(r.buf, block_size)]
    ELSE r

read_chunk(inp, pos, read_buffer, block_size) ==
    read_chunk_loop(inp, pos, read_buffer, 0, block_size)

RECURSIVE SumBytes(_)
SumBytes(s) == IF s = <<>> THEN 0 ELSE Head(s) + SumBytes(Tail(s))

Checksum(content) == SumBytes(content) % 256

\* One self-terminating frame with its content checksum.
ZstdFrame(content) ==
    <<ZstdMagic, Len(content)>> \o content \o <<Checksum(content)>>

\* The output stream as one encode step finds it: whether its position can
\* be read, and how many more bytes it accepts before every write fails
\* (NoLimit when nothing stops it, 0 on a full device).
NoLimit == -1

Min(a, b) == IF a < b THEN a ELSE b

Accepted(stream, n) == IF stream.room = NoLimit THEN n ELSE Min(n, stream.room)

\* The encoder takes in one zstd block (128 KiB) of content before it
\* compresses anything: a chunk of at most one block reaches the stream only
\* when the encoder is finished.
EncoderBufferSize == 131072

\* How many bytes of the frame write_all may hand to the stream before the
\* encoder is finished: none for a chunk of at most one block; for a longer
\* chunk the compressed output of its full blocks, which is as long as the
\* content compresses, so anything short of the whole frame.
FlushedByWrite(content_bytes) ==
    IF Len(content_bytes) <= EncoderBufferSize THEN {0}
    ELSE 0..(Len(ZstdFrame(content_bytes)) - 1)

\* encode_zstd_block with the end offset taken before the checksum is flushed.
encode_zstd_block_early_offset(file, content_bytes, stream, flushed) ==
    LET frame == ZstdFrame(content_bytes) IN
    [ok |-> TRUE,
     file |-> file \o frame,
     start_offset |-> Len(file),
     end_offset |-> Len(file) + Len(frame) - 1]

\* The stream position before the frame, the frame written through the
\* auto-finishing encoder, the stream position after it.  A failed
\* stream_position bails before anything is written.  write_all bails when
\* the stream refuses some of the flushed bytes the encoder hands over while
\* it runs; the file keeps the bytes the stream accepted.  The result of
\* finish(), called when the encoder is dropped, is discarded: the file keeps
\* the bytes the stream accepted and the step reports the frame, whatever its
\* length, like a complete one.
encode_zstd_block(file, content_bytes, stream, flushed) ==
    LET start_offset == Len(file)
        frame == ZstdFrame(content_bytes)
        write_ok == Accepted(stream, flushed) = flushed
        written == IF ~stream.seekable THEN file
                   ELSE IF ~write_ok THEN file \o Take(frame, Accepted(stream, flushed))
                   ELSE file \o Take(frame, Accepted(stream, Len(frame)))
    IN [ok |-> stream.seekable /\ write_ok,
        file |-> written,
        start_offset |-> start_offset,
        end_offset |-> Len(written)]

FrameMeta(position, length, order) ==
    [position |-> position, length |-> length, order |-> order]

\* The index document written by serde_json::to_writer_pretty: an array,
\* opened and closed, of objects with three unsigned fields each.
serialize_index(idx_records) ==
    [open |-> TRUE,
     items |-> [i \in 1..Len(idx_records) |->
                  <<idx_records[i].position, idx_records[i].length,
                    idx_records[i].order>>],
     close |-> TRUE]

EmptyDoc == [open |-> FALSE, items |-> <<>>, close |-> FALSE]

\* --------------------------------------------------------------- lib.rs
\* u64 -> usize: the conversion cannot fail on a 64-bit target.
parse_length(idx_frame) == [ok |-> idx_frame.length >= 0, value |-> idx_frame.length]

\* ToUpper, as the unit is matched without regard to case.
ToUpper(b) == IF b >= 97 /\ b <= 122 THEN b - 32 ELSE b

RECURSIVE DigitPrefixLen(_)
DigitPrefixLen(s) ==
    IF s # <<>> /\ Head(s) >= 48 /\ Head(s) <= 57 THEN 1 + DigitPrefixLen(Tail(s)) ELSE 0

RECURSIVE DigitsValue(_)
DigitsValue(s) ==
    IF s = <<>> THEN 0
    ELSE 10 * DigitsValue(SubSeq(s, 1, Len(s) - 1)) + (s[Len(s)] - 48)

IsWhitespace(b) == b \in {TAB, NL, 11, 12, 13, 32}

RECURSIVE TrimStart(_)
TrimStart(s) ==
    IF s # <<>> /\ IsWhitespace(Head(s)) THEN TrimStart(Tail(s)) ELSE s

RECURSIVE TrimEnd(_)
TrimEnd(s) ==
    IF s # <<>> /\ IsWhitespace(s[Len(s)]) THEN TrimEnd(Take(s, Len(s) - 1)) ELSE s

Trim(s) == TrimEnd(TrimStart(s))

RECURSIVE Pow(_, _)
Pow(base, e) == IF e = 0 THEN 1 ELSE base * Pow(base, e - 1)

RECURSIVE DropSpaces(_)
DropSpaces(s) == IF s # <<>> /\ Head(s) = 32 THEN DropSpaces(Tail(s)) ELSE s

\* The multiplier of a unit text, upper-cased: no text or B is 1, a prefix
\* K, M, G, T, P or E followed by nothing or B is a power of 1000, followed by
\* I or IB a power of 1024; 0 stands for a text that is no unit.
UnitMultiplier(unit) ==
    LET prefixes == <<75, 77, 71, 84, 80, 69>>
        rank == IF unit = <<>> THEN 0 ELSE PositionOf(prefixes, Head(unit))
        suffix == IF unit = <<>> THEN <<>> ELSE Tail(unit)
    IN IF unit \in {<< >>, <<66>>} THEN 1
       ELSE IF rank = 0 THEN 0
       ELSE IF suffix \in {<< >>, <<66>>} THEN Pow(1000, rank)
       ELSE IF suffix \in {<<73>>, <<73, 66>>} THEN Pow(1024, rank)
       ELSE 0

\* Byte::parse_str(s, true): the trimmed text is a decimal number (digits,
\* optionally a point and more digits), spaces, and a unit matched without
\* regard to case; the byte count is the number times the unit's multiplier,
\* rounded up.  No leading digit (a sign included), a point without digits
\* after it, or a text that is no unit, is an error.
byte_parse_str(s) ==
    LET t == Trim(s)
        n == DigitPrefixLen(t)
        after_int == Drop(t, n)
        has_point == after_int # <<>> /\ Head(after_int) = 46
        m == IF has_point THEN DigitPrefixLen(Tail(after_int)) ELSE 0
        after_number == IF has_point THEN Drop(after_int, m + 1) ELSE after_int
        unit_text == DropSpaces(after_number)
        unit == [i \in 1..Len(unit_text) |-> ToUpper(unit_text[i])]
        multiplier == UnitMultiplier(unit)
        whole == DigitsValue(SubSeq(t, 1, n))
        fraction == IF has_point THEN DigitsValue(SubSeq(after_int, 2, m + 1)) ELSE 0
        scale == Pow(10, m)
    IN IF n = 0 \/ (has_point /\ m = 0) \/ multiplier = 0 THEN [ok |-> FALSE, value |-> 0]
       ELSE [ok |-> TRUE,
             value |-> whole * multiplier
                       + (fraction * multiplier + scale - 1) \div scale]

\* parse_block_input: the parsed byte count as usize; u64 -> usize cannot
\* fail on a 64-bit target.
parse_block_input(s) == byte_parse_str(s)

\* The decimal numeral of n.
RECURSIVE Decimal(_)
Decimal(n) == IF n < 10 THEN <<48 + n>> ELSE Decimal(n \div 10) \o <<48 + (n % 10)>>

\* Block size arguments: the block sizes as numerals, and arguments that
\* are no positive byte count: "", "x", "-1" and "1x", which are no byte
\* count at all, and "0".
InvalidBlockArgs == {<< >>, <<120>>, <<45, 49>>, <<49, 120>>, <<48>>}

BlockArgs == { Decimal(n) : n \in BlockSizes } \cup InvalidBlockArgs

\* The files an earlier run left at the output and index paths.
StaleZstd == ZstdFrame(<<99>>)

StaleDoc == serialize_index(<<FrameMeta(0, 4, 0)>>)

\* ------------------------------------------------------- decompression.rs
WellFormed(doc) ==
    /\ doc.open
    /\ doc.close
    /\ \A i \in 1..Len(doc.items) :
          /\ Len(doc.items[i]) = 3
          /\ \A j \in 1..3 : doc.items[i][j] >= 0

\* load_frame_index recovering the well-formed prefix of a damaged document.
load_frame_index_partial(doc) ==
    LET good == { i \in 1..Len(doc.items) :
                    \A j \in 1..i : Len(doc.items[j]) = 3 }
    IN [ok |-> doc.open,
        data |-> [i \in 1..Cardinality(good) |->
                    FrameMeta(doc.items[i][1], doc.items[i][2], doc.items[i][3])]]

load_frame_index(doc) ==
    IF WellFormed(doc)
    THEN [ok |-> TRUE,
          data |-> [i \in 1..Len(doc.items) |->
                      FrameMeta(doc.items[i][1], doc.items[i][2], doc.items[i][3])]]
    ELSE [ok |-> FALSE, data |-> <<>>]

IsDigit(b) == b >= 48 /\ b <= 57

RECURSIVE DecimalValue(_)
DecimalValue(s) ==
    IF s = <<>> THEN 0
    ELSE 10 * DecimalValue(Take(s, Len(s) - 1)) + (s[Len(s)] - 48)

\* The decimal digits of u64::MAX, 18446744073709551615.
U64MaxDigits == <<49, 56, 52, 52, 54, 55, 52, 52, 48, 55, 51, 55, 48, 57, 53, 53, 49, 54, 49, 53>>

RECURSIVE StripZeros(_)
StripZeros(s) == IF s # <<>> /\ Head(s) = 48 THEN StripZeros(Tail(s)) ELSE s

\* a <= b for numerals of the same length.
RECURSIVE NumeralLeq(_, _)
NumeralLeq(a, b) ==
    IF a = <<>> THEN TRUE
    ELSE IF Head(a) # Head(b) THEN Head(a) < Head(b)
    ELSE NumeralLeq(Tail(a), Tail(b))

\* The numeral denotes a value of at most u64::MAX.
FitsU64(digits) ==
    LET significant == StripZeros(digits) IN
    \/ Len(significant) < Len(U64MaxDigits)
    \/ Len(significant) = Len(U64MaxDigits) /\ NumeralLeq(significant, U64MaxDigits)

\* str::parse::<u64>: an optional '+', then one or more decimal digits whose
\* value fits 64 bits; anything else, a '-' included, is an error.
ParseU64(s) ==
    LET digits == IF s # <<>> /\ Head(s) = 43 THEN Tail(s) ELSE s IN
    IF digits # <<>> /\ (\A i \in 1..Len(digits) : IsDigit(digits[i])) /\ FitsU64(digits)
    THEN [ok |-> TRUE, value |-> DecimalValue(StripZeros(digits))]
    ELSE [ok |-> FALSE, value |-> 0]

parse_bytes_to_numeric(bytes) ==
    IF ~IsValidUtf8(bytes) THEN [ok |-> FALSE, value |-> 0]
    ELSE ParseU64(Trim(bytes))

\* String::from_utf8_lossy: every invalid byte becomes U+FFFD (EF BF BD).
RECURSIVE from_utf8_lossy(_)
from_utf8_lossy(s) ==
    IF s = <<>> THEN <<>>
    ELSE (IF Head(s) < 128 THEN <<Head(s)>> ELSE <<239, 191, 189>>)
         \o from_utf8_lossy(Tail(s))

\* slice::split on the newline byte: a trailing newline yields a last, empty line.
RECURSIVE SplitLines(_)
SplitLines(buf) ==
    LET k == PositionOf(buf, NL) IN
    IF k = 0 THEN <<buf>>
    ELSE <<Take(buf, k - 1)>> \o SplitLines(Drop(buf, k))

\* The loop of parse_lines_to_map leaving out the records whose value does
\* not parse.
RECURSIVE ParseLines_skip_malformed(_)
ParseLines_skip_malformed(lines) ==
    IF lines = <<>> THEN <<>>
    ELSE LET line_repr == Head(lines)
             tab_position == PositionOf(line_repr, TAB)
         IN IF tab_position = 0 THEN ParseLines_skip_malformed(Tail(lines))
            ELSE LET accession == from_utf8_lossy(Take(line_repr, tab_position - 1))
                     parsed == parse_bytes_to_numeric(Drop(line_repr, tab_position))
                 IN (IF parsed.ok THEN <<<<accession, parsed.value>>>> ELSE <<>>)
                    \o ParseLines_skip_malformed(Tail(lines))

\* The loop of parse_lines_to_map keeping one record per key, the last.
RECURSIVE ParseLines_last_per_key(_)
ParseLines_last_per_key(lines) ==
    IF lines = <<>> THEN <<>>
    ELSE LET line_repr == Head(lines)
             tab_position == PositionOf(line_repr, TAB)
         IN IF tab_position = 0 THEN ParseLines_last_per_key(Tail(lines))
            ELSE LET accession == from_utf8_lossy(Take(line_repr, tab_position - 1))
                     parsed == parse_bytes_to_numeric(Drop(line_repr, tab_position))
                     taxid == IF parsed.ok THEN parsed.value ELSE 0
                     again == \E j \in 2..Len(lines) :
                                  /\ PositionOf(lines[j], TAB) = tab_position
                                  /\ Take(lines[j], tab_position) = Take(line_repr, tab_position)
                 IN (IF again THEN <<>> ELSE <<<<accession, taxid>>>>)
                    \o ParseLines_last_per_key(Tail(lines))

RECURSIVE ParseLines(_)
ParseLines(lines) ==
    IF lines = <<>> THEN <<>>
    ELSE LET line_repr == Head(lines)
             tab_position == PositionOf(line_repr, TAB)
         IN IF tab_position = 0 THEN ParseLines(Tail(lines))
            ELSE LET accession == from_utf8_lossy(Take(line_repr, tab_position - 1))
                     parsed == parse_bytes_to_numeric(Drop(line_repr, tab_position))
                     taxid == IF parsed.ok THEN parsed.value ELSE 0
                 IN <<<<accession, taxid>>>> \o ParseLines(Tail(lines))

parse_lines_to_map(buf) == ParseLines(SplitLines(buf))

\* The accessions parse_lines_to_map prints "Error parsing record" for, in
\* the order of the lines.
RECURSIVE ParseLinesLog(_)
ParseLinesLog(lines) ==
    IF lines = <<>> THEN <<>>
    ELSE LET line_repr == Head(lines)
             tab_position == PositionOf(line_repr, TAB)
         IN IF tab_position = 0 THEN ParseLinesLog(Tail(lines))
            ELSE LET accession == from_utf8_lossy(Take(line_repr, tab_position - 1))
                     parsed == parse_bytes_to_numeric(Drop(line_repr, tab_position))
                 IN (IF parsed.ok THEN <<>> ELSE <<accession>>)
                    \o ParseLinesLog(Tail(lines))

parse_lines_to_map_log(buf) == ParseLinesLog(SplitLines(buf))

\* The streaming decoder behind zstd::decode_all: it decodes the frames of the
\* buffer one after the other until the buffer ends, and fails on a bad magic
\* number, a short frame or a checksum mismatch.
RECURSIVE decode_frames(_)
decode_frames(bytes) ==
    IF bytes = <<>> THEN [ok |-> TRUE, data |-> <<>>]
    ELSE IF Len(bytes) < 3 \/ bytes[1] # ZstdMagic \/ bytes[2] < 0
                \/ Len(bytes) < bytes[2] + 3
    THEN [ok |-> FALSE, data |-> <<>>]
    ELSE LET n == bytes[2]
             content == SubSeq(bytes, 3, n + 2)
             rest == decode_frames(Drop(bytes, n + 3))
         IN IF bytes[n + 3] = Checksum(content) /\ rest.ok
            THEN [ok |-> TRUE, data |-> content \o rest.data]
            ELSE [ok |-> FALSE, data |-> <<>>]

\* zstd::decode_all: a buffer that holds no frame at all is an error
\* ("incomplete frame"), any other buffer is decoded frame by frame.
decode_all(bytes) ==
    IF bytes = <<>> THEN [ok |-> FALSE, data |-> <<>>]
    ELSE decode_frames(bytes)

\* FileExt::read_exact_at: exactly length bytes at the offset, an error when
\* the file ends before them. An empty buffer is filled without a read, at
\* any offset.
read_exact_at(file, length, position) ==
    IF length = 0 THEN [ok |-> TRUE, data |-> <<>>]
    ELSE IF position + length > Len(file) THEN [ok |-> FALSE, data |-> <<>>]
    ELSE [ok |-> TRUE, data |-> SubSeq(file, position + 1, position + length)]

Failure(kind) == [ok |-> FALSE, err |-> kind, data |-> <<>>]

\* The memory the allocator can still grant is the machine's, not the
\* code's: 1 GiB where it is short, and where it is ample more than the
\* longest length the model holds.  (A length above isize::MAX, which is
\* beyond the model's integers, is refused on every machine, with a capacity
\* overflow panic.)
ShortMemory == 1073741824

AmpleMemory == 2147483647

\* A length that no frame has, between the two.
ForgedLength == 2000000000

\* The buffer of the frame is not granted: map_zstd_frame does not return,
\* the allocation failure aborts the process.
NoReturn == [ok |-> FALSE, err |-> "alloc", data |-> <<>>]

Panics(r) == ~r.ok /\ r.err = "alloc"

\* map_zstd_frame: the length as usize, a zeroed buffer of that length, the
\* file opened for this frame alone, the frame read at its offset, decoded
\* and parsed; every error but that of the allocation is returned.  Whether
\* the buffer is granted depends on the memory that is free.
map_zstd_frame(exists, file, idx_frame, free_memory) ==
    LET payload_length == parse_length(idx_frame) IN
    IF ~payload_length.ok THEN Failure("length")
    ELSE IF payload_length.value > free_memory THEN NoReturn
    ELSE IF ~exists THEN Failure("open")
    ELSE LET frame_payload == read_exact_at(file, payload_length.value, idx_frame.position) IN
         IF ~frame_payload.ok THEN Failure("read")
         ELSE LET payload == decode_all(frame_payload.data) IN
              IF ~payload.ok THEN Failure("decode")
              ELSE [ok |-> TRUE, err |-> "", data |-> parse_lines_to_map(payload.data)]

\* --------------------------------------------------------------- maps
EmptyMap == << >>

\* Insert leaving the value of a key that is already present.
Insert_keep_existing(m, k, v) ==
    [x \in (DOMAIN m) \cup {k} |-> IF x \in DOMAIN m THEN m[x] ELSE v]

\* insert: the value replaces the one the key had.
Insert(m, k, v) == [x \in (DOMAIN m) \cup {k} |-> IF x = k THEN v ELSE m[x]]

\* Inserting a list of pairs in order: the last pair of a key wins.
RECURSIVE InsertAll(_, _)
InsertAll(m, pairs) ==
    IF pairs = <<>> THEN m
    ELSE InsertAll(Insert(m, Head(pairs)[1], Head(pairs)[2]), Tail(pairs))

\* HashMap::extend: the entries of b overwrite those of a.
Extend(a, b) ==
    [x \in (DOMAIN a) \cup (DOMAIN b) |-> IF x \in DOMAIN b THEN b[x] ELSE a[x]]

Size(m) == Cardinality(DOMAIN m)

\* The reduce step keeping only the larger map.
reduce_op_keep_larger(a, b) == IF Size(a) < Size(b) THEN b ELSE a

\* The reduce step always extending its first argument with its second.
reduce_operands_unswapped(a, b) == [into |-> a, from |-> b]

\* The reduce step's swap: afterwards a is the map with no fewer entries.
reduce_operands(a, b) ==
    IF Size(a) < Size(b) THEN [into |-> b, from |-> a] ELSE [into |-> a, from |-> b]

\* The reduce step: the smaller map is inserted into the larger one.
reduce_op(a, b) == Extend(reduce_operands(a, b).into, reduce_operands(a, b).from)

\* The maps the reduce closure is examined on: every map from at most
\* MaxMergeKeys keys to the values 1 and 2.
MaxMergeKeys == 3

MergeKeys == { <<96 + i>> : i \in 1..MaxMergeKeys }

MergeValues == {1, 2}

MergeMaps == UNION { [S -> MergeValues] : S \in SUBSET MergeKeys }

\* ---------------------------------------------------------------- state
VARIABLES
    input,          \* the bytes of the input file
    block_arg,      \* the block size argument handed to perform_compression
    block_size,     \* the block size handed to write_indexed_zstd
    rpos,           \* bytes the input reader has consumed
    read_buffer,    \* what read_buffer held when the chunk loop was left
    wpc,            \* perform_compression: "start", "invalid" (block size refused),
                    \* "panic" (a file could not be opened);
                    \* write_indexed_zstd: "loop", then "done" (Ok) or "err"
    zfile,          \* the bytes of the compressed file
    zexists,        \* the compressed file can be opened
    memory,         \* the memory the allocator can grant a decompression pass
    idx_records,    \* the descriptors collected by the writer
    seq_position,   \* the writer's frame counter
    idxdoc,         \* the index document on disk
    chunks,         \* the chunks read_chunk returned, in order
    wfault,         \* the stream fault the compression pass met last, if any
    cexit,          \* how the compress process ended
    damage,         \* what happened to the files after the compression pass
    rpc,            \* read_indexed_zstd_*: "idle", "run", "done" (Ok), "err",
                    \* "panic" (a frame task did not return, the process is gone)
    mode,           \* the strategy: "dashmap", "vector" or "merge"
    num_threads,    \* the worker count
    pool_built,     \* the thread pool has been built
    outcomes,       \* what map_zstd_frame returns for each loaded descriptor
    idx_buffer,     \* the descriptors load_frame_index returned
    next_frame,     \* descriptors the bridged iterator has handed out
    workers,        \* per worker: its state, its frame, the pairs left to insert
    local_vec,      \* vector: per worker, the frame results it collected
    acc,            \* merge: the partial maps of the reduction
    record_map,     \* the resulting (or the shared) map
    results,        \* per descriptor: the outcome of its frame task
    errlog,         \* the descriptors whose failure was printed
    taken,          \* the descriptors handed to frame tasks, in order
    returned,       \* the EitherMap the pass returned
    dexit,          \* how the decompress process ended
    pbuf,           \* a decoded buffer handed to parse_lines_to_map
    ppc,            \* "call" before parse_lines_to_map has run on pbuf, "ret" after
    unpacked_data,  \* the records parse_lines_to_map returned
    plog,           \* the accessions of the records it printed an error for
    reduce_a,       \* the first map handed to the reduce closure
    reduce_b,       \* the second map handed to the reduce closure
    reduce_moved,   \* the entries a.extend(b) inserted
    reduce_out,     \* the map the closure returned
    rdpc            \* "call" before the closure has run, "ret" after

wvars == <<input, block_arg, block_size, rpos, read_buffer, wpc, idx_records, seq_position, chunks,
           wfault, cexit>>

fvars == <<zfile, zexists, memory, idxdoc, damage>>

rvars == <<rpc, mode, num_threads, pool_built, idx_buffer, outcomes, next_frame, workers,
           local_vec, acc, record_map, results, errlog, taken, returned, dexit>>

mvars == <<reduce_a, reduce_b, reduce_moved, reduce_out, rdpc>>

pvars == <<pbuf, ppc, unpacked_data, plog, mvars>>

vars == <<wvars, fvars, rvars, pvars>>

Modes == {"dashmap", "vector", "merge"}

Idle == [st |-> "idle", frame |-> 0, pending |-> <<>>]

Pending == [st |-> "pending", data |-> <<>>]

\* --------------------------------------------------------------- lib.rs
\* EitherMap: the two variants, the narrowing accessors and len.
Dash(m) == [tag |-> "Dash", map |-> m]

AHash(m) == [tag |-> "AHash", map |-> m]

NoResult == [tag |-> "None", map |-> EmptyMap]

Some(m) == [some |-> TRUE, map |-> m]

None == [some |-> FALSE, map |-> EmptyMap]

\* into_ahash handing out the map of either variant.
into_ahash_any(e) == Some(e.map)

into_ahash(e) == IF e.tag = "AHash" THEN Some(e.map) ELSE None

into_dash(e) == IF e.tag = "Dash" THEN Some(e.map) ELSE None

len(e) == Size(e.map)

\* -------------------------------------------------------------- main.rs
Running == [exited |-> FALSE, code |-> 0, cause_printed |-> FALSE]

\* main: prints "Completed!" or "Operation failed!" with the cause, and
\* returns, which ends the process with status 0 either way.
main(operation_ok) ==
    [exited |-> TRUE, code |-> 0, cause_printed |-> ~operation_ok]

\* A panic, here of unwrap() on an Err: the message is printed to stderr and
\* the process ends with status 101.
panic == [exited |-> TRUE, code |-> 101, cause_printed |-> TRUE]

\* An allocation failure: the message is printed to stderr and the process
\* is ended by SIGABRT (status 134 in a shell).
aborted == [exited |-> TRUE, code |-> 134, cause_printed |-> TRUE]

\* Nothing has run yet: the output and index paths hold files of an earlier
\* run, no frame is written, no pass started.
InitPass ==
    /\ rpos = 0
    /\ read_buffer = <<>>
    /\ wpc = "start"
    /\ zfile = StaleZstd
    /\ zexists = TRUE
    /\ memory = AmpleMemory
    /\ idx_records = <<>>
    /\ seq_position = 0
    /\ idxdoc = StaleDoc
    /\ chunks = <<>>
    /\ wfault = "none"
    /\ cexit = Running
    /\ damage = "none"
    /\ rpc = "idle"
    /\ mode = "dashmap"
    /\ num_threads = 1
    /\ pool_built = FALSE
    /\ idx_buffer = <<>>
    /\ next_frame = 0
    /\ workers = <<>>
    /\ local_vec = <<>>
    /\ acc = <<>>
    /\ record_map = EmptyMap
    /\ results = <<>>
    /\ errlog = {}
    /\ outcomes = <<>>
    /\ taken = <<>>
    /\ returned = NoResult
    /\ dexit = Running

\* parse_lines_to_map is not being examined on its own.
InitNoParse ==
    /\ pbuf = <<>>
    /\ ppc = "off"
    /\ unpacked_data = <<>>
    /\ plog = <<>>

\* The reduce closure is not being examined on its own.
InitNoReduce ==
    /\ reduce_a = EmptyMap
    /\ reduce_b = EmptyMap
    /\ reduce_moved = EmptyMap
    /\ reduce_out = EmptyMap
    /\ rdpc = "off"

Init ==
    /\ input \in Inputs
    /\ block_arg \in BlockArgs
    /\ block_size = 0
    /\ InitPass
    /\ InitNoParse
    /\ InitNoReduce

\* ------------------------------------------------- write_indexed_zstd
\* perform_compression: parse_block_input(block_size)? returns the error
\* before any file is opened; main reports it.
PerformCompressionReject ==
    /\ wpc = "start"
    /\ ~parse_block_input(block_arg).ok
    /\ wpc' = "invalid"
    /\ cexit' = main(FALSE)
    /\ UNCHANGED <<input, block_arg, block_size, rpos, read_buffer, idx_records,
                   seq_position, chunks, wfault, fvars, rvars, pvars>>

\* perform_compression: the block size parses; the input is opened, the
\* output and index files are created or truncated, write_indexed_zstd is
\* entered.
PerformCompressionOpen ==
    /\ wpc = "start"
    /\ parse_block_input(block_arg).ok
    /\ block_size' = parse_block_input(block_arg).value
    /\ zfile' = <<>>
    /\ idxdoc' = EmptyDoc
    /\ wpc' = "loop"
    /\ UNCHANGED <<input, block_arg, rpos, read_buffer, idx_records, seq_position,
                   chunks, wfault, cexit, zexists, memory, damage, rvars, pvars>>

\* perform_compression: the block size parses, and one of the three files
\* cannot be opened; unwrap() panics.  The files are opened in the order
\* input, output, index, and the output file is truncated as it is opened: a
\* failure on the input or the output path leaves what the two paths held, a
\* failure on the index path leaves the output file empty and the index path
\* as it was.
PerformCompressionPanic ==
    /\ wpc = "start"
    /\ parse_block_input(block_arg).ok
    /\ \E path \in {"input", "output", "index"} :
         zfile' = IF path = "index" THEN <<>> ELSE zfile
    /\ block_size' = parse_block_input(block_arg).value
    /\ wpc' = "panic"
    /\ cexit' = panic
    /\ UNCHANGED <<input, block_arg, rpos, read_buffer, idx_records, seq_position,
                   chunks, wfault, zexists, memory, idxdoc, damage, rvars, pvars>>

\* The output stream at the start of an encode step.  A stream that has
\* refused bytes (wfault = "full": the device is full, the file has reached
\* its size limit) accepts none later; otherwise nothing limits it, or it
\* accepts only the first bytes of this frame (none of them, the frame header
\* alone, or all but the checksum), or its position cannot be read.
OutputStreams(content_bytes) ==
    IF wfault = "full" THEN {[seekable |-> TRUE, room |-> 0]}
    ELSE {[seekable |-> TRUE, room |-> r] :
             r \in {NoLimit, 0, 2, Len(ZstdFrame(content_bytes)) - 1}}
         \cup {[seekable |-> FALSE, room |-> NoLimit]}

\* One turn of the chunk loop with the order field never advanced.
CompressChunk_stale_order ==
    /\ wpc = "loop"
    /\ LET r == read_chunk(input, rpos, <<>>, block_size) IN
       /\ r.tag = "Some"
       /\ \E stream \in OutputStreams(r.buf), flushed \in FlushedByWrite(r.buf) :
            LET e == encode_zstd_block(zfile, r.buf, stream, flushed) IN
            /\ e.ok
            /\ zfile' = e.file
            /\ idx_records' = Append(idx_records,
                   FrameMeta(e.start_offset, e.end_offset - e.start_offset, 0))
            /\ wfault' = IF stream.room = NoLimit THEN wfault ELSE "full"
       /\ seq_position' = seq_position + 1
       /\ rpos' = r.pos
       /\ chunks' = Append(chunks, r.buf)
    /\ UNCHANGED <<input, block_arg, block_size, read_buffer, wpc, cexit, zexists, memory, idxdoc, damage,
                   rvars, pvars>>

\* One turn of the chunk loop: read_chunk returned a chunk, which is encoded
\* as one frame and described by one index record, also when the stream
\* accepted only a part of the frame.
CompressChunk ==
    /\ wpc = "loop"
    /\ LET r == read_chunk(input, rpos, <<>>, block_size) IN
       /\ r.tag = "Some"
       /\ \E stream \in OutputStreams(r.buf), flushed \in FlushedByWrite(r.buf) :
            LET e == encode_zstd_block(zfile, r.buf, stream, flushed) IN
            /\ e.ok
            /\ zfile' = e.file
            /\ idx_records' = Append(idx_records,
                   FrameMeta(e.start_offset, e.end_offset - e.start_offset, seq_position))
            /\ wfault' = IF stream.room = NoLimit THEN wfault ELSE "full"
       /\ seq_position' = seq_position + 1
       /\ rpos' = r.pos
       /\ chunks' = Append(chunks, r.buf)
    /\ UNCHANGED <<input, block_arg, block_size, read_buffer, wpc, cexit, zexists, memory, idxdoc, damage,
                   rvars, pvars>>

\* A turn of the chunk loop whose encode step returns an error: the error is
\* propagated with `?`, nothing is written to the index, main reports it.
CompressAbort ==
    /\ wpc = "loop"
    /\ LET r == read_chunk(input, rpos, <<>>, block_size) IN
       /\ r.tag = "Some"
       /\ \E stream \in OutputStreams(r.buf), flushed \in FlushedByWrite(r.buf) :
            LET e == encode_zstd_block(zfile, r.buf, stream, flushed) IN
            /\ ~e.ok
            /\ zfile' = e.file
            /\ wfault' = IF stream.seekable THEN "full" ELSE "position"
       /\ rpos' = r.pos
       /\ chunks' = Append(chunks, r.buf)
    /\ wpc' = "err"
    /\ cexit' = main(FALSE)
    /\ UNCHANGED <<input, block_arg, block_size, read_buffer, zexists, memory, idx_records, seq_position,
                   idxdoc, damage, rvars, pvars>>

\* The loop is left when read_chunk returns anything but Ok(Some(_)): the end
\* of the input or a read error.  The index is written and Ok returned.
CompressFinish ==
    /\ wpc = "loop"
    /\ LET r == read_chunk(input, rpos, <<>>, block_size) IN
       /\ r.tag # "Some"
       /\ rpos' = r.pos
       /\ read_buffer' = r.buf
    /\ idxdoc' = serialize_index(idx_records)
    /\ wpc' = "done"
    /\ cexit' = main(TRUE)
    /\ UNCHANGED <<input, block_arg, block_size, zfile, zexists, memory, idx_records, seq_position,
                   chunks, wfault, damage, rvars, pvars>>

\* What the index path holds when the index stream refuses bytes: nothing,
\* or the document up to some descriptor, never its closing bracket.
IndexPrefixes(doc) ==
    {EmptyDoc} \cup {[open |-> TRUE, items |-> Take(doc.items, k), close |-> FALSE] :
                        k \in 0..Len(doc.items)}

\* The loop is left and the index stream fails: to_writer_pretty(..)? or
\* flush()? returns the error after every frame has been written; main
\* reports it.
CompressIndexFail ==
    /\ wpc = "loop"
    /\ LET r == read_chunk(input, rpos, <<>>, block_size) IN
       /\ r.tag # "Some"
       /\ rpos' = r.pos
       /\ read_buffer' = r.buf
    /\ idxdoc' \in IndexPrefixes(serialize_index(idx_records))
    /\ wfault' = "index"
    /\ wpc' = "err"
    /\ cexit' = main(FALSE)
    /\ UNCHANGED <<input, block_arg, block_size, zfile, zexists, memory, idx_records, seq_position,
                   chunks, damage, rvars, pvars>>

\* ------------------------------------- the files between the two passes
\* The files are as a compression pass without fault left them.
Untouched == wpc = "done" /\ wfault = "none" /\ rpc = "idle" /\ damage = "none"

\* The first content byte of one frame is altered.
FlipByte ==
    /\ Untouched
    /\ \E i \in 1..Len(idx_records) :
         zfile' = [zfile EXCEPT ![idx_records[i].position + 3] = (@ + 1) % 256]
    /\ damage' = "flip"
    /\ UNCHANGED <<wvars, zexists, memory, idxdoc, rvars, pvars>>

\* The compressed file loses its last byte.
TruncateZstd ==
    /\ Untouched
    /\ zfile # <<>>
    /\ zfile' = Take(zfile, Len(zfile) - 1)
    /\ damage' = "truncated"
    /\ UNCHANGED <<wvars, zexists, memory, idxdoc, rvars, pvars>>

\* The compressed file is removed.
RemoveZstd ==
    /\ Untouched
    /\ zexists' = FALSE
    /\ damage' = "removed"
    /\ UNCHANGED <<wvars, zfile, memory, idxdoc, rvars, pvars>>

\* The index document loses its tail: the closing bracket and, when there is
\* one, the last field of the last descriptor.
TruncateIndex ==
    /\ Untouched
    /\ idxdoc' = [open |-> idxdoc.open,
                  items |-> [i \in 1..Len(idxdoc.items) |->
                               IF i = Len(idxdoc.items)
                               THEN Take(idxdoc.items[i], 2) ELSE idxdoc.items[i]],
                  close |-> FALSE]
    /\ damage' = "index"
    /\ UNCHANGED <<wvars, zfile, zexists, memory, rvars, pvars>>

\* The index document comes from elsewhere or was edited: one descriptor
\* holds a length far beyond its frame.  Whether a buffer of that length is
\* granted depends on the machine the pass will run on.
ForgeLength ==
    /\ Untouched
    /\ \E i \in 1..Len(idxdoc.items) :
         idxdoc' = [idxdoc EXCEPT !.items[i][2] = ForgedLength]
    /\ memory' \in {ShortMemory, AmpleMemory}
    /\ damage' = "length"
    /\ UNCHANGED <<wvars, zfile, zexists, rvars, pvars>>

\* ------------------------------------------------ read_indexed_zstd_*
\* The index is loaded; a malformed index returns the error at once.  Else
\* the pool is built and the descriptors are bridged to its workers.  The
\* files do not change while a pass runs, so what map_zstd_frame returns for
\* each descriptor is settled here; a frame task finds it when it runs.
StartDecompress ==
    /\ wpc = "done"
    /\ rpc = "idle"
    /\ \E m \in Modes, n \in 1..MaxWorkers :
         LET loaded == load_frame_index(idxdoc) IN
         /\ mode' = m
         /\ num_threads' = n
         /\ IF loaded.ok
            THEN /\ rpc' = "run"
                 /\ pool_built' = TRUE
                 /\ idx_buffer' = loaded.data
                 /\ outcomes' = [i \in 1..Len(loaded.data) |->
                                    map_zstd_frame(zexists, zfile, loaded.data[i], memory)]
                 /\ workers' = [w \in 1..n |-> Idle]
                 /\ local_vec' = IF m = "vector" THEN [w \in 1..n |-> <<>>] ELSE <<>>
                 /\ acc' = IF m = "merge" THEN [w \in 1..n |-> EmptyMap] ELSE <<>>
                 /\ results' = [i \in 1..Len(loaded.data) |-> Pending]
                 /\ dexit' = dexit
            ELSE /\ rpc' = "err"
                 /\ dexit' = main(FALSE)
                 /\ UNCHANGED <<pool_built, idx_buffer, outcomes, workers, local_vec, acc,
                                results>>
    /\ UNCHANGED <<wvars, fvars, pvars, taken, returned, next_frame, record_map, errlog>>

\* A free worker takes the next descriptor from the bridged iterator.
Dispatch(w) ==
    /\ rpc = "run"
    /\ workers[w].st = "idle"
    /\ next_frame < Len(idx_buffer)
    /\ workers' = [workers EXCEPT ![w] = [st |-> "mapping", frame |-> next_frame + 1,
                                          pending |-> <<>>]]
    /\ next_frame' = next_frame + 1
    /\ taken' = Append(taken, next_frame + 1)
    /\ UNCHANGED <<wvars, fvars, pvars, outcomes,
                   returned, dexit, rpc, mode, num_threads, pool_built, idx_buffer,
                   local_vec, acc, record_map, results, errlog>>

\* What map_zstd_frame returns to the frame task of worker w.
FrameResult(w) == outcomes[workers[w].frame]

Mapping(w, m) == rpc = "run" /\ mode = m /\ workers[w].st = "mapping"

Decoded(w) ==
    results' = [results EXCEPT ![workers[w].frame] =
                   [st |-> "ok", data |-> FrameResult(w).data]]

Failed(w) ==
    results' = [results EXCEPT ![workers[w].frame] = [st |-> "err", data |-> <<>>]]

\* dashmap: the frame decoded, its pairs are to be inserted into the shared map.
MapFrameDash(w) ==
    /\ Mapping(w, "dashmap")
    /\ FrameResult(w).ok
    /\ Decoded(w)
    /\ workers' = [workers EXCEPT ![w] =
                     IF FrameResult(w).data = <<>> THEN Idle
                     ELSE [st |-> "inserting", frame |-> @.frame,
                           pending |-> FrameResult(w).data]]
    /\ UNCHANGED <<wvars, fvars, pvars, outcomes,
                   taken, returned, dexit, rpc, mode, num_threads, pool_built, idx_buffer,
                   next_frame, local_vec, acc, record_map, errlog>>

\* dashmap: one insertion into the shared map.
DashInsert(w) ==
    /\ rpc = "run"
    /\ workers[w].st = "inserting"
    /\ LET kv == Head(workers[w].pending)
           rest == Tail(workers[w].pending)
       IN /\ record_map' = Insert(record_map, kv[1], kv[2])
          /\ workers' = [workers EXCEPT ![w] =
                           IF rest = <<>> THEN Idle ELSE [@ EXCEPT !.pending = rest]]
    /\ UNCHANGED <<wvars, fvars, pvars, outcomes,
                   taken, returned, dexit, rpc, mode, num_threads, pool_built, idx_buffer,
                   next_frame, local_vec, acc, results, errlog>>

\* dashmap: the frame failed; the error is printed and the frame dropped.
FrameErrorDash(w) ==
    /\ Mapping(w, "dashmap")
    /\ ~FrameResult(w).ok
    /\ ~Panics(FrameResult(w))
    /\ Failed(w)
    /\ errlog' = errlog \cup {workers[w].frame}
    /\ workers' = [workers EXCEPT ![w] = Idle]
    /\ UNCHANGED <<wvars, fvars, pvars, outcomes,
                   taken, returned, dexit, rpc, mode, num_threads, pool_built, idx_buffer,
                   next_frame, local_vec, acc, record_map>>

\* vector with the frame's pairs put into the final map by the worker.
MapFrameVector_eager(w) ==
    /\ Mapping(w, "vector")
    /\ FrameResult(w).ok
    /\ Decoded(w)
    /\ local_vec' = [local_vec EXCEPT ![w] = Append(@, FrameResult(w).data)]
    /\ record_map' = InsertAll(record_map, FrameResult(w).data)
    /\ workers' = [workers EXCEPT ![w] = Idle]
    /\ UNCHANGED <<wvars, fvars, pvars, outcomes,
                   taken, returned, dexit, rpc, mode, num_threads, pool_built, idx_buffer,
                   next_frame, acc, errlog>>

\* vector: the frame's pairs join the list this worker collects.
MapFrameVector(w) ==
    /\ Mapping(w, "vector")
    /\ FrameResult(w).ok
    /\ Decoded(w)
    /\ local_vec' = [local_vec EXCEPT ![w] = Append(@, FrameResult(w).data)]
    /\ workers' = [workers EXCEPT ![w] = Idle]
    /\ UNCHANGED <<wvars, fvars, pvars, outcomes,
                   taken, returned, dexit, rpc, mode, num_threads, pool_built, idx_buffer,
                   next_frame, acc, record_map, errlog>>

\* merge: the frame's pairs make a local map, folded into this worker's partial map.
MapFrameMerge(w) ==
    /\ Mapping(w, "merge")
    /\ FrameResult(w).ok
    /\ Decoded(w)
    /\ acc' = [acc EXCEPT ![w] = reduce_op(@, InsertAll(EmptyMap, FrameResult(w).data))]
    /\ workers' = [workers EXCEPT ![w] = Idle]
    /\ UNCHANGED <<wvars, fvars, pvars, outcomes,
                   taken, returned, dexit, rpc, mode, num_threads, pool_built, idx_buffer,
                   next_frame, local_vec, record_map, errlog>>

\* A failed frame that ends the pass with the descriptors not yet handed out.
FrameErrorFiltered_abort(w) ==
    /\ rpc = "run"
    /\ mode \in {"vector", "merge"}
    /\ workers[w].st = "mapping"
    /\ ~FrameResult(w).ok
    /\ ~Panics(FrameResult(w))
    /\ Failed(w)
    /\ workers' = [workers EXCEPT ![w] = Idle]
    /\ next_frame' = Len(idx_buffer)
    /\ UNCHANGED <<wvars, fvars, pvars, outcomes,
                   taken, returned, dexit, rpc, mode, num_threads, pool_built, idx_buffer,
                   local_vec, acc, record_map, errlog>>

\* vector and merge: filter_map(Result::ok) drops the failed frame.
FrameErrorFiltered(w) ==
    /\ rpc = "run"
    /\ mode \in {"vector", "merge"}
    /\ workers[w].st = "mapping"
    /\ ~FrameResult(w).ok
    /\ ~Panics(FrameResult(w))
    /\ Failed(w)
    /\ workers' = [workers EXCEPT ![w] = Idle]
    /\ UNCHANGED <<wvars, fvars, pvars, outcomes,
                   taken, returned, dexit, rpc, mode, num_threads, pool_built, idx_buffer,
                   next_frame, local_vec, acc, record_map, errlog>>

\* Every descriptor was handed out and every worker is done.
Drained ==
    /\ rpc = "run"
    /\ next_frame = Len(idx_buffer)
    /\ \A w \in 1..num_threads : workers[w].st = "idle"

\* dashmap: pool.install returns; the shared map is the result.
FinishDash ==
    /\ Drained
    /\ mode = "dashmap"
    /\ rpc' = "done"
    /\ returned' = Dash(record_map)
    /\ dexit' = main(TRUE)
    /\ UNCHANGED <<wvars, fvars, pvars, outcomes,
                   taken, mode, num_threads, pool_built, idx_buffer, next_frame,
                   workers, local_vec, acc, record_map, results, errlog>>

\* collect() keeping only the first worker's list.
record_buffer_first_only == IF local_vec = <<>> THEN <<>> ELSE local_vec[1]

\* collect(): the lists of the workers, one after the other.
record_buffer == Flatten(local_vec)

\* vector: the collected lists are flattened into the map, one thread, in order.
FinishVector ==
    /\ Drained
    /\ mode = "vector"
    /\ record_map' = InsertAll(EmptyMap, Flatten(record_buffer))
    /\ rpc' = "done"
    /\ returned' = AHash(record_map')
    /\ dexit' = main(TRUE)
    /\ UNCHANGED <<wvars, fvars, pvars, outcomes,
                   taken, mode, num_threads, pool_built, idx_buffer, next_frame,
                   workers, local_vec, acc, results, errlog>>

\* merge: two neighbouring partial maps of the reduction tree are combined.
ReduceStep ==
    /\ Drained
    /\ mode = "merge"
    /\ \E i \in 1..(Len(acc) - 1) :
         acc' = Take(acc, i - 1) \o <<reduce_op(acc[i], acc[i + 1])>> \o Drop(acc, i + 1)
    /\ UNCHANGED <<wvars, fvars, pvars, outcomes,
                   taken, returned, dexit, rpc, mode, num_threads, pool_built, idx_buffer,
                   next_frame, workers, local_vec, record_map, results, errlog>>

\* merge: the reduction is complete.
FinishMerge ==
    /\ Drained
    /\ mode = "merge"
    /\ Len(acc) = 1
    /\ record_map' = acc[1]
    /\ rpc' = "done"
    /\ returned' = AHash(record_map')
    /\ dexit' = main(TRUE)
    /\ UNCHANGED <<wvars, fvars, pvars, outcomes,
                   taken, mode, num_threads, pool_built, idx_buffer, next_frame,
                   workers, local_vec, acc, results, errlog>>

\* The buffer of a frame is not granted (vec![0u8; payload_length]): the
\* allocation failure aborts the process.  The pass ends at once, in every
\* strategy, with the other descriptors wherever they are.
FrameAbort(w) ==
    /\ rpc = "run"
    /\ workers[w].st = "mapping"
    /\ Panics(FrameResult(w))
    /\ rpc' = "panic"
    /\ dexit' = aborted
    /\ UNCHANGED <<wvars, fvars, pvars, outcomes, taken, returned, mode, num_threads,
                   pool_built, idx_buffer, next_frame, workers, local_vec, acc,
                   record_map, results, errlog>>

WorkerStep ==
    \E w \in 1..num_threads :
        \/ Dispatch(w)
        \/ FrameAbort(w)
        \/ MapFrameDash(w)
        \/ DashInsert(w)
        \/ FrameErrorDash(w)
        \/ MapFrameVector(w)
        \/ MapFrameMerge(w)
        \/ FrameErrorFiltered(w)

Next ==
    \/ PerformCompressionReject
    \/ PerformCompressionPanic
    \/ PerformCompressionOpen
    \/ CompressChunk
    \/ CompressAbort
    \/ CompressFinish
    \/ CompressIndexFail
    \/ FlipByte
    \/ TruncateZstd
    \/ RemoveZstd
    \/ TruncateIndex
    \/ ForgeLength
    \/ StartDecompress
    \/ WorkerStep
    \/ FinishDash
    \/ FinishVector
    \/ ReduceStep
    \/ FinishMerge

Spec == Init /\ [][Next]_vars

\* The pool's threads keep running: a frame task that can take a step takes
\* it, and the calling thread goes on when pool.install returns.
PassStep == WorkerStep \/ FinishDash \/ FinishVector \/ ReduceStep \/ FinishMerge

FairSpec == Spec /\ WF_vars(PassStep)

\* ------------------------------------------- parse_lines_to_map on its own
InitParse ==
    /\ input = <<>>
    /\ block_arg = <<>>
    /\ block_size = 0
    /\ InitPass
    /\ pbuf \in ParseBufs
    /\ ppc = "call"
    /\ unpacked_data = <<>>
    /\ plog = <<>>
    /\ InitNoReduce

ParseBuffer ==
    /\ ppc = "call"
    /\ unpacked_data' = parse_lines_to_map(pbuf)
    /\ plog' = parse_lines_to_map_log(pbuf)
    /\ ppc' = "ret"
    /\ UNCHANGED <<wvars, fvars, rvars, pbuf, mvars>>

NextParse == ParseBuffer

SpecParse == InitParse /\ [][NextParse]_vars

\* --------------------------------------------- the reduce closure on its own
InitMerge ==
    /\ input = <<>>
    /\ block_arg = <<>>
    /\ block_size = 0
    /\ InitPass
    /\ InitNoParse
    /\ reduce_a \in MergeMaps
    /\ reduce_b \in MergeMaps
    /\ reduce_moved = EmptyMap
    /\ reduce_out = EmptyMap
    /\ rdpc = "call"

ReduceCall ==
    /\ rdpc = "call"
    /\ reduce_moved' = reduce_operands(reduce_a, reduce_b).from
    /\ reduce_out' = reduce_op(reduce_a, reduce_b)
    /\ rdpc' = "ret"
    /\ UNCHANGED <<wvars, fvars, rvars, pbuf, ppc, unpacked_data, plog, reduce_a, reduce_b>>

NextMerge == ReduceCall

SpecMerge == InitMerge /\ [][NextMerge]_vars

\* ------------------------------------------------------------ properties
Keys(pairs) == { pairs[i][1] : i \in DOMAIN pairs }

NoDuplicateKeys(pairs) ==
    \A i, j \in DOMAIN pairs : pairs[i][1] = pairs[j][1] => i = j

\* The descriptors of the index document on disk.
DiskIndex == load_frame_index(idxdoc).data

\* The bytes of one frame, decoded on their own.
FrameContent(d) == decode_all(read_exact_at(zfile, d.length, d.position).data).data

\* What each descriptor of the loaded index yields on its own.
FrameOutcome(i) == map_zstd_frame(zexists, zfile, idx_buffer[i], memory)

\* The records of the frames that decode, in index order.
DecodedPairs == Flatten([i \in 1..Len(idx_buffer) |-> FrameOutcome(i).data])

\* The records of the frame tasks that succeeded.
SucceededPairs ==
    Flatten([i \in 1..Len(results) |->
               IF results[i].st = "ok" THEN results[i].data ELSE <<>>])

\* The key -> value table of the input file: its records, as parse_lines_to_map
\* reads them from the whole input, collected into a map.
InputTable == InsertAll(EmptyMap, parse_lines_to_map(input))

\* BufRead::lines: the lines of the file without their newline, and without
\* a carriage return right before it; a file that ends in a newline has no
\* empty last line, and an unterminated last line keeps its carriage return.
Lines(bytes) ==
    LET pieces == SplitLines(bytes)
        n == Len(pieces)
        terminated == [i \in 1..(n - 1) |->
                         IF pieces[i] # <<>> /\ pieces[i][Len(pieces[i])] = 13
                         THEN Take(pieces[i], Len(pieces[i]) - 1) ELSE pieces[i]]
    IN IF pieces[n] = <<>> THEN terminated ELSE terminated \o <<pieces[n]>>

\* The reference table of the tests: every line is trimmed, split at its
\* first separator and its value parsed as u64, each step unwrapped.  The
\* helper panics (ok is FALSE) on a line that is not valid UTF-8, has no
\* separator after trimming, or has a value that is no u64.
data_to_ahashmap(bytes) ==
    LET lines == Lines(bytes)
        content(i) == Trim(lines[i])
        tab(i) == PositionOf(content(i), TAB)
        value(i) == ParseU64(Drop(content(i), tab(i)))
        accepted == /\ IsValidUtf8(bytes)
                    /\ \A i \in 1..Len(lines) : tab(i) > 0 /\ value(i).ok
    IN IF accepted
       THEN [ok |-> TRUE,
             map |-> InsertAll(EmptyMap,
                        [i \in 1..Len(lines) |->
                            <<Take(content(i), tab(i) - 1), value(i).value>>])]
       ELSE [ok |-> FALSE, map |-> EmptyMap]

RECURSIVE FoldMerge(_, _)
FoldMerge(a, frames) ==
    IF frames = <<>> THEN a
    ELSE FoldMerge(reduce_op(a, InsertAll(EmptyMap, Head(frames))), Tail(frames))

\* What a strategy returns when one worker handles the descriptors in order.
SingleWorkerResult(m) ==
    LET frames == [i \in 1..Len(idx_buffer) |-> FrameOutcome(i).data] IN
    IF m = "merge" THEN FoldMerge(EmptyMap, frames)
    ELSE InsertAll(EmptyMap, Flatten(frames))

\* C1: after a successful compression pass the descriptors of the index are
\* contiguous (position + length of each is the position of the next) and
\* the last one ends at the size of the compressed file.
C1_FrameContiguity ==
    (wpc = "done" /\ damage = "none") =>
        LET index == DiskIndex IN
        /\ \A i \in 1..(Len(index) - 1) :
              index[i].position + index[i].length = index[i + 1].position
        /\ index # <<>> =>
              index[Len(index)].position + index[Len(index)].length = Len(zfile)

C1_Witness == wpc = "done" /\ damage = "none" /\ Len(DiskIndex) >= 2

\* C2: after a compression pass, the frames decoded in index order and
\* concatenated are the input, byte for byte.
C2_RoundTrip ==
    (wpc = "done" /\ damage = "none" /\ wfault = "none") =>
        Flatten([i \in 1..Len(DiskIndex) |-> FrameContent(DiskIndex[i])]) = input

\* C3: every chunk read_chunk returns is a non-empty run of whole input
\* lines: it starts at the start of a line and ends right after a newline or
\* at the end of the input, however small block_size is.
C3_ChunkLineAligned ==
    \A i \in 1..Len(chunks) :
        LET start == Len(Flatten(Take(chunks, i - 1)))
            end == start + Len(chunks[i])
        IN /\ chunks[i] # <<>>
           /\ end <= Len(input)
           /\ chunks[i] = SubSeq(input, start + 1, end)
           /\ start = 0 \/ input[start] = NL
           /\ input[end] = NL \/ end = Len(input)

C3_Witness ==
    /\ wpc = "done"
    /\ Len(chunks) >= 2
    /\ Len(chunks[1]) > block_size
    /\ chunks[Len(chunks)][Len(chunks[Len(chunks)])] # NL

\* C4: with the files as a compression pass left them, every descriptor the
\* pass wrote yields on its own exactly the records of the chunk encoded
\* into its frame, also as a frame task running among other frame tasks.
C4_SingleFrameIsolation ==
    (zexists /\ damage = "none") =>
        /\ \A i \in 1..Len(idx_records) :
              LET r == map_zstd_frame(zexists, zfile, idx_records[i], memory) IN
              r.ok /\ r.data = parse_lines_to_map(chunks[i])
        /\ \A i \in 1..Len(results) :
              /\ results[i].st # "err"
              /\ results[i].st = "ok" => results[i].data = parse_lines_to_map(chunks[i])

\* C5: for an input without duplicate keys and files as the compression pass
\* left them, each strategy returns the key -> value table of the input, which
\* is also the reference table of the tests where their helper accepts the
\* input.
C5_MergeEquivalence ==
    (rpc = "done" /\ damage = "none" /\ wfault = "none"
        /\ NoDuplicateKeys(parse_lines_to_map(input))) =>
        /\ record_map = InputTable
        /\ data_to_ahashmap(input).ok => record_map = data_to_ahashmap(input).map

\* C6: when the decoded records hold no duplicate key, a pass with any worker
\* count returns the map the same strategy returns with one worker.
C6_ScaleInvariance ==
    (rpc = "done" /\ NoDuplicateKeys(DecodedPairs)) =>
        record_map = SingleWorkerResult(mode)

C6_Witness ==
    /\ rpc = "done"
    /\ mode = "vector"
    /\ num_threads = 2
    /\ local_vec[1] # <<>>
    /\ local_vec[2] # <<>>
    /\ NoDuplicateKeys(DecodedPairs)
    /\ Size(record_map) = 2

\* C7: when a pass returns, the keys of the map are exactly the keys of the
\* records of the frame tasks that succeeded.
C7_Completeness == rpc = "done" => DOMAIN record_map = Keys(SucceededPairs)

C7_Witness ==
    /\ rpc = "done"
    /\ mode = "merge"
    /\ num_threads = 2
    /\ Len(results) = 2
    /\ Size(record_map) = 2

\* C8: a failing frame task leaves the others alone: the pass returns Ok
\* unless the index is malformed, every descriptor was handled, a frame
\* fails only if it fails on its own, the failed frames add nothing and
\* every record of every other frame is in the map.
C8_FailureIsolation ==
    /\ rpc = "err" => ~load_frame_index(idxdoc).ok
    /\ rpc = "done" =>
          /\ \A i \in 1..Len(results) :
                /\ results[i].st # "pending"
                /\ results[i].st = "ok" <=> FrameOutcome(i).ok
                /\ results[i].st = "ok" => results[i].data = FrameOutcome(i).data
          /\ \A i \in 1..Len(SucceededPairs) : SucceededPairs[i][1] \in DOMAIN record_map
          /\ \A k \in DOMAIN record_map :
                \E i \in 1..Len(SucceededPairs) :
                    SucceededPairs[i] = <<k, record_map[k]>>

C8_Witness ==
    /\ rpc = "done"
    /\ Len(results) = 2
    /\ results[1].st = "err"
    /\ results[2].st = "ok"
    /\ record_map # EmptyMap

\* C9: with a malformed index the pass is in error before a pool is built
\* or a descriptor used; otherwise the pass works on exactly the descriptors
\* of the index document, from its start to its end.
C9_MalformedIndexFatal ==
    /\ (rpc # "idle" /\ ~WellFormed(idxdoc)) =>
          /\ rpc = "err"
          /\ ~pool_built
          /\ idx_buffer = <<>>
          /\ next_frame = 0
          /\ workers = <<>>
          /\ results = <<>>
          /\ record_map = EmptyMap
    /\ rpc \in {"run", "done"} =>
          /\ pool_built
          /\ Len(idx_buffer) = Len(idxdoc.items)
          /\ \A i \in 1..Len(idx_buffer) :
                idx_buffer[i] = FrameMeta(idxdoc.items[i][1], idxdoc.items[i][2],
                                          idxdoc.items[i][3])

C9_Witness == rpc = "err" /\ damage = "index" /\ Len(idxdoc.items) = 2

\* C10: a decompression pass over a compressed file that cannot be opened
\* ends in an error before any frame task has run; it never returns Ok.
C10_MissingFileFatal ==
    (rpc # "idle" /\ ~zexists) =>
        /\ rpc = "err"
        /\ next_frame = 0
        /\ \A i \in 1..Len(results) : results[i].st = "pending"

\* C11: a compression pass whose output stream failed during an encode step
\* (offset query, write or finish) ends in an error and leaves the index
\* document unwritten; it never returns Ok.
C11_EncodeFailureAborts ==
    (wfault \in {"full", "position"}) => (wpc # "done" /\ idxdoc = EmptyDoc)

\* The lines of a buffer that hold a separator, their key and value fields.
SeparatorLines(b) == SelectSeq(SplitLines(b), LAMBDA l : PositionOf(l, TAB) # 0)

KeyOf(l) == Take(l, PositionOf(l, TAB) - 1)

FieldOf(l) == Drop(l, PositionOf(l, TAB))

\* C12: parse_lines_to_map returns one record per separator line, in order,
\* under the line's key; a line whose value field is malformed (negative,
\* out of range, not valid UTF-8, not a number, empty) still yields its
\* record, with value 0, and its key is printed with the error.
C12_MalformedValueIsZero ==
    ppc = "ret" =>
        LET ls == SeparatorLines(pbuf)
            bad == SelectSeq(ls, LAMBDA l : FieldOf(l) \in MalformedFields)
        IN /\ Len(unpacked_data) = Len(ls)
           /\ \A i \in 1..Len(ls) :
                 /\ unpacked_data[i][1] = from_utf8_lossy(KeyOf(ls[i]))
                 /\ FieldOf(ls[i]) \in MalformedFields => unpacked_data[i][2] = 0
           /\ plog = [i \in 1..Len(bad) |-> from_utf8_lossy(KeyOf(bad[i]))]

C12_Witness ==
    /\ ppc = "ret"
    /\ Len(SeparatorLines(pbuf)) = 2
    /\ FieldOf(SeparatorLines(pbuf)[1]) = OutOfRangeField
    /\ FieldOf(SeparatorLines(pbuf)[2]) = NegativeField
    /\ unpacked_data = <<<<(<<97>>), 0>>, <<(<<239, 191, 189>>), 0>>>>
    /\ Len(plog) = 2

\* C13: the k-th descriptor produced (k counted from 0) has order k: the
\* order fields start at 0 and go up by one per frame without a gap, in the
\* writer's list at every moment and in the index document it serialises.
C13_OrderIsSequence ==
    /\ seq_position = Len(idx_records)
    /\ Len(idx_records) = Len(chunks) - (IF wpc = "err" /\ wfault # "index" THEN 1 ELSE 0)
    /\ \A i \in 1..Len(idx_records) : idx_records[i].order = i - 1
    /\ (wpc = "done" /\ damage = "none") =>
          LET index == DiskIndex IN
          /\ Len(index) = Len(idx_records)
          /\ \A i \in 1..Len(index) : index[i].order = i - 1

C13_Witness ==
    /\ wpc = "done"
    /\ damage = "none"
    /\ Len(DiskIndex) = 2
    /\ DiskIndex[1].order = 0
    /\ DiskIndex[2].order = 1

\* C14: a process that ended on a fatal error (the block size was refused, a
\* file could not be opened, the compression pass aborted, the index could
\* not be loaded) has a non-zero exit status and has printed the cause; the
\* exit status is zero only when the operation succeeded.
C14_ExitStatus ==
    /\ cexit.exited =>
          /\ (cexit.code = 0) <=> (wpc = "done")
          /\ wpc # "done" => cexit.cause_printed
    /\ dexit.exited =>
          /\ (dexit.code = 0) <=> (rpc = "done")
          /\ rpc = "err" => dexit.cause_printed

\* C15: a finished pass returns the variant of its strategy: dashmap a Dash
\* map (into_dash is Some, into_ahash is None), vector and merge an AHash
\* map (into_ahash is Some, into_dash is None); the accessor hands out the
\* map the pass built, and len is the number of distinct keys of the records
\* of the frames that decoded.
C15_ResultVariant ==
    rpc = "done" =>
        /\ mode = "dashmap" =>
              /\ into_dash(returned) = Some(record_map)
              /\ into_ahash(returned) = None
        /\ mode \in {"vector", "merge"} =>
              /\ into_ahash(returned) = Some(record_map)
              /\ into_dash(returned) = None
        /\ len(returned) = Cardinality(Keys(SucceededPairs))

C15_Witness ==
    /\ rpc = "done"
    /\ mode = "vector"
    /\ into_ahash(returned).some
    /\ Len(SucceededPairs) = 2
    /\ len(returned) = 1

\* C16: every chunk read_chunk returns is the shortest run of whole lines of
\* the remaining input that is at least block_size bytes long, or all of the
\* remaining input when that is shorter than block_size; and read_chunk
\* returns None exactly when no input bytes remain.
C16_ChunkMinimal ==
    /\ \A i \in 1..Len(chunks) :
          LET start == Len(Flatten(Take(chunks, i - 1)))
              end == start + Len(chunks[i])
          IN /\ chunks[i] = SubSeq(input, start + 1, end)
             /\ Len(chunks[i]) < block_size => end = Len(input)
             /\ \A e \in (start + 1)..(end - 1) :
                   input[e] = NL => e - start < block_size
    /\ wpc = "loop" =>
          /\ rpos = Len(Flatten(chunks))
          /\ (read_chunk(input, rpos, <<>>, block_size).tag = "None")
                <=> (rpos = Len(input))

C16_Witness ==
    /\ wpc = "loop"
    /\ block_size = 5
    /\ chunks = << <<97, TAB, 49, NL, 98, TAB, 50, 50, NL>> >>
    /\ rpos = Len(input)
    /\ read_chunk(input, rpos, <<>>, block_size).tag = "None"

\* The value of the last pair of the list that has the key.
LastValue(pairs, k) ==
    LET j == CHOOSE j \in DOMAIN pairs :
                 /\ pairs[j][1] = k
                 /\ \A h \in DOMAIN pairs : h > j => pairs[h][1] # k
    IN pairs[j][2]

\* C17: in all three strategies the value a finished pass holds for a key
\* is the value of the last line with that key in one of the frames that
\* decoded: never the value of an earlier line that the same frame
\* overwrote, never a value no frame holds.
C17_LastWriteWins ==
    rpc = "done" =>
        /\ DOMAIN record_map = Keys(SucceededPairs)
        /\ \A k \in DOMAIN record_map :
              \E i \in 1..Len(results) :
                  /\ results[i].st = "ok"
                  /\ k \in Keys(results[i].data)
                  /\ record_map[k] = LastValue(results[i].data, k)

C17_Witness ==
    /\ rpc = "done"
    /\ mode = "dashmap"
    /\ Len(results) = 1
    /\ results[1].st = "ok"
    /\ results[1].data = <<<<(<<97>>), 1>>, <<(<<97>>), 0>>>>
    /\ record_map[<<97>>] = 0

\* C18: the vector strategy returns, for every worker count and every run,
\* the map it returns with one worker, also when a key occurs in more than
\* one frame.
C18_VectorDeterministic ==
    (rpc = "done" /\ mode = "vector") => record_map = SingleWorkerResult("vector")

\* C19: in each of the three strategies, when the pass has returned, every
\* descriptor whose frame task failed has had its failure printed, and only
\* those.
C19_FailureLogged ==
    rpc = "done" =>
        errlog = { i \in 1..Len(results) : results[i].st = "err" }

\* Every descriptor of the loaded index was handed to a frame task once, in
\* the iterator's order, and every frame task has ended, Ok or Err.
AllDispatchedOnce ==
    /\ taken = [i \in 1..Len(idx_buffer) |-> i]
    /\ \A i \in 1..Len(results) : results[i].st \in {"ok", "err"}

\* C20: once the index has loaded, a pass with any worker count terminates,
\* and by then every descriptor has been handed to exactly one frame task
\* exactly once, each of which succeeded or was dropped; meanwhile no
\* descriptor is handed out twice and the pass is not cancelled.
C20_PassTerminates ==
    (rpc = "run") ~> (rpc = "done" /\ AllDispatchedOnce)

\* The frames whose task has ended Ok and whose pairs no worker is still
\* inserting.
CompletedFrames ==
    { i \in 1..Len(results) :
        /\ results[i].st = "ok"
        /\ \A w \in 1..Len(workers) :
              ~(workers[w].st = "inserting" /\ workers[w].frame = i) }

\* C21: in the vector strategy the final map stays empty while the pass
\* runs, until every frame task has ended, and is then filled in one step
\* from the collected lists; in the dashmap strategy the workers insert
\* into the map themselves, so the pairs of every completed frame are in it
\* while the pass still runs and the return adds nothing.
C21_CombinePhase ==
    /\ mode = "vector" =>
          /\ rpc = "run" => record_map = EmptyMap
          /\ rpc = "done" =>
                /\ \A i \in 1..Len(results) : results[i].st \in {"ok", "err"}
                /\ \A w \in 1..Len(workers) : workers[w].st = "idle"
                /\ record_map = InsertAll(EmptyMap, Flatten(record_buffer))
    /\ (mode = "dashmap" /\ rpc \in {"run", "done"}) =>
          /\ \A i \in CompletedFrames : Keys(results[i].data) \subseteq DOMAIN record_map
          /\ local_vec = <<>>
          /\ acc = <<>>

C21_Witness ==
    /\ mode = "vector"
    /\ rpc = "run"
    /\ num_threads = 2
    /\ next_frame = 2
    /\ results[1].st = "ok"
    /\ results[2].st = "pending"
    /\ local_vec[1] # <<>>
    /\ record_map = EmptyMap

\* C22: a combine step of the merge strategy on maps a and b inserts the
\* map with fewer entries into the map with more entries, never the
\* reverse: exactly min(|a|, |b|) entries are inserted, the keys of the
\* result are the keys of a and of b, every key keeps a value one of the
\* two maps had for it, and combining with the empty map returns the other
\* map unchanged.
C22_SizeBiasedMerge ==
    rdpc = "ret" =>
        LET small == IF Size(reduce_a) < Size(reduce_b) THEN Size(reduce_a)
                     ELSE Size(reduce_b)
        IN /\ Size(reduce_moved) = small
           /\ reduce_moved \in {reduce_a, reduce_b}
           /\ Size(reduce_a) < Size(reduce_b) => reduce_moved = reduce_a
           /\ Size(reduce_b) < Size(reduce_a) => reduce_moved = reduce_b
           /\ DOMAIN reduce_out = (DOMAIN reduce_a) \cup (DOMAIN reduce_b)
           /\ \A k \in DOMAIN reduce_moved : reduce_out[k] = reduce_moved[k]
           /\ \A k \in (DOMAIN reduce_out) \ (DOMAIN reduce_moved) :
                 \/ (k \in DOMAIN reduce_a /\ reduce_out[k] = reduce_a[k])
                 \/ (k \in DOMAIN reduce_b /\ reduce_out[k] = reduce_b[k])
           /\ reduce_a = EmptyMap => reduce_out = reduce_b
           /\ reduce_b = EmptyMap => reduce_out = reduce_a

C22_Witness ==
    /\ rdpc = "ret"
    /\ Size(reduce_a) = 1
    /\ Size(reduce_b) = 3
    /\ reduce_moved = reduce_a
    /\ \E k \in DOMAIN reduce_a : reduce_b[k] # reduce_a[k] /\ reduce_out[k] = reduce_a[k]

\* C23: parse_lines_to_map returns exactly one record per line that holds
\* a separator, in line order, keyed by the bytes before the line's first
\* separator (as they are when they are valid UTF-8, else decoded lossily);
\* lines without a separator, empty lines included, yield no record and no
\* error; lines that repeat a key each keep their own record.
C23_OneRecordPerSeparatorLine ==
    ppc = "ret" =>
        LET ls == SeparatorLines(pbuf) IN
        /\ [i \in 1..Len(unpacked_data) |-> unpacked_data[i][1]]
              = [i \in 1..Len(ls) |-> from_utf8_lossy(KeyOf(ls[i]))]
        /\ \A i \in 1..Len(ls) :
              LET key == KeyOf(ls[i]) IN
              /\ \A j \in 1..Len(key) : key[j] # TAB
              /\ ls[i][Len(key) + 1] = TAB
              /\ IsValidUtf8(key) => unpacked_data[i][1] = key
        /\ Len(SplitLines(pbuf)) - Len(ls)
              = Cardinality({ i \in 1..Len(SplitLines(pbuf)) :
                                \A j \in 1..Len(SplitLines(pbuf)[i]) :
                                    SplitLines(pbuf)[i][j] # TAB })
        /\ \A j \in 1..Len(plog) :
              \E i \in 1..Len(unpacked_data) :
                  plog[j] = unpacked_data[i][1] /\ unpacked_data[i][2] = 0

C23_Witness ==
    /\ ppc = "ret"
    /\ pbuf = <<97, TAB, 49, NL, 97, TAB, 49, TAB, 50, NL>>
    /\ Len(SplitLines(pbuf)) = 3
    /\ unpacked_data = <<<<(<<97>>), 1>>, <<(<<97>>), 0>>>>

\* C24: when the block size argument is invalid (no byte count, or not
\* positive), perform_compression ends in an error, reported by main, with
\* the input unread and the files at the output and index paths as they
\* were; the chunk loop is never entered.
C24_InvalidBlockSizeTouchesNothing ==
    (block_arg \in InvalidBlockArgs /\ wpc # "start") =>
        /\ wpc = "invalid"
        /\ cexit = main(FALSE)
        /\ rpos = 0
        /\ chunks = <<>>
        /\ zexists
        /\ zfile = StaleZstd
        /\ idxdoc = StaleDoc

\* C25: write_indexed_zstd returns Ok only when every line of the input was
\* read and encoded into a frame: the chunks it encoded make up the whole
\* input and no line read is left behind in the read buffer.
C25_ReadFailureReported ==
    wpc = "done" =>
        /\ rpos = Len(input)
        /\ Flatten(chunks) = input
        /\ read_buffer = <<>>

====
